---- MODULE Spec2Model ----
(***************************************************************************)
(* Model of onnxruntime/core/session/custom_ops.cc:                        *)
(*   - CudaNotification / CudaStream: the cross-stream notification        *)
(*     (Activate, wait_on_device, wait_on_host) over CUDA queues;          *)
(*   - CreateCustomRegistry: schema synthesis, consistency check, kernel   *)
(*     registration and the type-inference function of custom ops.         *)
(***************************************************************************)
EXTENDS Integers, Sequences, FiniteSets, TLC

(***************************************************************************)
(* Bounds of the model.                                                    *)
(***************************************************************************)
\* kernels a host thread launches on one stream
MaxKernels == 2
\* calls of Activate() on the one notification (the code has no guard
\* against a second call)
MaxActivate == 2
\* descriptors in the custom op domain handed to CreateCustomRegistry
MaxOps == 2
\* calls of Compute on one kernel instance
MaxCompute == 2
\* elements of an attribute (characters of a string attribute)
MaxAttrLen == 2
\* queries of one attribute that are followed
MaxQueries == 2

(***************************************************************************)
(* Part 1: streams and notification.                                       *)
(***************************************************************************)
kCudaExecutionProvider == "CUDAExecutionProvider"
kCpuExecutionProvider == "CPUExecutionProvider"

\* the producer stream owns the notification; the consumer stream is the
\* argument of wait_on_device
Streams == {"prod", "cons"}
Threads == {"producer", "consumer", "host"}

VARIABLES
  ready_,      \* CudaNotification::ready_ (std::atomic_bool)
  event_,      \* CudaNotification::event_: index in the producer queue of the
               \* latest cudaEventRecord, 0 when never recorded
  queue,       \* per stream, the operations enqueued on its native queue
  done,        \* per stream, how many of its operations the device completed
  provider,    \* per stream, Stream::provider->Type()
  pc,          \* per host thread, its position
  hostCap,     \* the record cudaEventSynchronize waits for (captured at call)
  nAct,        \* calls of Activate() so far
  paused       \* the threads that went through SpinPause() at least once

syncVars == <<ready_, event_, queue, done, provider, pc, hostCap, nAct, paused>>

VARIABLES
  stream_handle_registry, \* IStreamCommandHandleRegistry: the wait functions
               \* and the stream-creation functions registered so far
  created,     \* per stream, the outcome of CreateCudaStream for its provider
  flush        \* the call of CudaStream::Flush() a host thread is in, if any

streamVars == <<stream_handle_registry, created, flush>>

VARIABLES
  custom_ops_, \* OrtCustomOpDomain::custom_ops_: the descriptors of the domain
  idx,         \* descriptors of custom_ops_ processed so far
  schema_map,  \* CreateCustomRegistry: schema_map (name -> OpSchema)
  type_map,    \* CreateCustomRegistry: type_map (name -> type vectors)
  output,      \* the CustomRegistry returned through `output`
  status,      \* "running", or how CreateCustomRegistry ended
  error,       \* the message of the failure, "" when none
  infer,       \* the last call of a schema's inference function, or NoCall
  calls        \* the accessors of OrtCustomOp invoked so far, each with the
               \* version of the descriptor it was invoked on

regVars == <<custom_ops_, idx, schema_map, type_map, output, status, error, infer, calls>>

VARIABLES
  kernel,      \* a CustomOpKernel instance: its descriptor, op_kernel_ and the
               \* calls it made into the plugin
  attr         \* a call of an attribute query of OrtApis and what it returned

apiVars == <<kernel, attr>>

vars == <<ready_, event_, queue, done, provider, pc, hostCap, nAct, paused,
          stream_handle_registry, created, flush,
          custom_ops_, idx, schema_map, type_map, output, status, error, infer, calls,
          kernel, attr>>

KernelOp == [kind |-> "kernel", cap |-> 0]
RecordOp == [kind |-> "record", cap |-> 0]
WaitOp(c) == [kind |-> "wait", cap |-> c]

NumKernels(s) == Cardinality({i \in 1..Len(queue[s]) : queue[s][i].kind = "kernel"})

\* CudaNotification(Stream* s): ready_{} is value-initialised to false and
\* the event is created, not recorded.
NotificationInit ==
  /\ ready_ = FALSE
  /\ event_ = 0
  /\ queue = [s \in Streams |-> <<>>]
  /\ done = [s \in Streams |-> 0]
  /\ provider \in [Streams -> {kCudaExecutionProvider, kCpuExecutionProvider}]
  /\ provider["prod"] = kCudaExecutionProvider
  /\ pc = [t \in Threads |-> "run"]
  /\ hostCap = 0
  /\ nAct = 0
  /\ paused = {}

\* A host thread launches a kernel on its stream (the executor enqueues
\* kernel launches in topological order).
StreamOf(t) == IF t = "producer" THEN "prod" ELSE "cons"

LaunchKernel(t) ==
  /\ t \in {"producer", "consumer"}
  /\ pc[t] \in {"run", "returned"}
  /\ NumKernels(StreamOf(t)) < MaxKernels
  /\ queue' = [queue EXCEPT ![StreamOf(t)] = Append(@, KernelOp)]
  /\ UNCHANGED <<ready_, event_, done, provider, pc, hostCap, nAct, paused>>
  /\ UNCHANGED <<streamVars, regVars, apiVars>>

\* Activate() storing the flag where it should record the event
Activate_record_StoreFirst ==
  /\ pc["producer"] = "run"
  /\ nAct < MaxActivate
  /\ ready_' = TRUE
  /\ nAct' = nAct + 1
  /\ pc' = [pc EXCEPT !["producer"] = "act_store"]
  /\ UNCHANGED <<event_, queue, done, provider, hostCap, paused>>
  /\ UNCHANGED <<streamVars, regVars, apiVars>>

\* Activate(), first statement: cudaEventRecord(event_, stream->handle).
Activate_record ==
  /\ pc["producer"] = "run"
  /\ nAct < MaxActivate
  /\ queue' = [queue EXCEPT !["prod"] = Append(@, RecordOp)]
  /\ event_' = Len(queue["prod"]) + 1
  /\ nAct' = nAct + 1
  /\ pc' = [pc EXCEPT !["producer"] = "act_store"]
  /\ UNCHANGED <<ready_, done, provider, hostCap, paused>>
  /\ UNCHANGED <<streamVars, regVars, apiVars>>

\* Activate() flipping the flag where it should set it
Activate_store_Toggle ==
  /\ pc["producer"] = "act_store"
  /\ ready_' = ~ready_
  /\ pc' = [pc EXCEPT !["producer"] = "run"]
  /\ UNCHANGED <<event_, queue, done, provider, hostCap, nAct, paused>>
  /\ UNCHANGED <<streamVars, regVars, apiVars>>

\* Activate() returning without the store
Activate_store_Skipped ==
  /\ pc["producer"] = "act_store"
  /\ pc' = [pc EXCEPT !["producer"] = "run"]
  /\ UNCHANGED <<ready_, event_, queue, done, provider, hostCap, nAct, paused>>
  /\ UNCHANGED <<streamVars, regVars, apiVars>>

\* Activate(), second statement: ready_.store(true).
Activate_store ==
  /\ pc["producer"] = "act_store"
  /\ ready_' = TRUE
  /\ pc' = [pc EXCEPT !["producer"] = "run"]
  /\ UNCHANGED <<event_, queue, done, provider, hostCap, nAct, paused>>
  /\ UNCHANGED <<streamVars, regVars, apiVars>>

\* wait_on_device: ORT_ENFORCE(device_stream.provider->Type() == kCuda).
wait_on_device_enforce ==
  /\ pc["consumer"] = "run"
  /\ pc' = [pc EXCEPT !["consumer"] =
              IF provider["cons"] = kCudaExecutionProvider
                THEN "wod_spin" ELSE "failed"]
  /\ UNCHANGED <<ready_, event_, queue, done, provider, hostCap, nAct, paused>>
  /\ UNCHANGED <<streamVars, regVars, apiVars>>

\* wait_on_device leaving the loop without looking at the flag
wait_on_device_spin_NoLoad ==
  /\ pc["consumer"] = "wod_spin"
  /\ pc' = [pc EXCEPT !["consumer"] = "wod_wait"]
  /\ UNCHANGED <<ready_, event_, queue, done, provider, hostCap, nAct, paused>>
  /\ UNCHANGED <<streamVars, regVars, apiVars>>

\* wait_on_device: while (!ready_.load()) SpinPause();
wait_on_device_spin ==
  /\ pc["consumer"] = "wod_spin"
  /\ \/ /\ ready_
        /\ pc' = [pc EXCEPT !["consumer"] = "wod_wait"]
        /\ UNCHANGED paused
     \/ /\ ~ready_
        /\ paused' = paused \cup {"consumer"}
        /\ UNCHANGED pc
  /\ UNCHANGED <<ready_, event_, queue, done, provider, hostCap, nAct>>
  /\ UNCHANGED <<streamVars, regVars, apiVars>>

\* wait_on_device blocking the host on the event (cudaEventSynchronize)
\* before it enqueues the wait
wait_on_device_enqueue_HostBlocks ==
  /\ pc["consumer"] = "wod_wait"
  /\ done["prod"] >= event_
  /\ queue' = [queue EXCEPT !["cons"] = Append(@, [kind |-> "wait", cap |-> event_])]
  /\ pc' = [pc EXCEPT !["consumer"] = "returned"]
  /\ UNCHANGED <<ready_, event_, done, provider, hostCap, nAct, paused>>
  /\ UNCHANGED <<streamVars, regVars, apiVars>>

\* wait_on_device: cudaStreamWaitEvent(device_stream.handle, event_): the
\* wait captures the latest record of the event (none: the wait is a no-op)
\* and the call returns at once.
wait_on_device_enqueue ==
  /\ pc["consumer"] = "wod_wait"
  /\ queue' = [queue EXCEPT !["cons"] = Append(@, WaitOp(event_))]
  /\ pc' = [pc EXCEPT !["consumer"] = "returned"]
  /\ UNCHANGED <<ready_, event_, done, provider, hostCap, nAct, paused>>
  /\ UNCHANGED <<streamVars, regVars, apiVars>>

\* wait_on_host: while (!ready_.load()) SpinPause();
wait_on_host_spin ==
  /\ pc["host"] = "run"
  /\ \/ /\ ready_
        /\ pc' = [pc EXCEPT !["host"] = "woh_sync"]
        /\ UNCHANGED paused
     \/ /\ ~ready_
        /\ paused' = paused \cup {"host"}
        /\ UNCHANGED pc
  /\ UNCHANGED <<ready_, event_, queue, done, provider, hostCap, nAct>>
  /\ UNCHANGED <<streamVars, regVars, apiVars>>

\* wait_on_host: cudaEventSynchronize(event_) is called: it waits for the
\* work captured by the latest record at this moment.
wait_on_host_sync ==
  /\ pc["host"] = "woh_sync"
  /\ hostCap' = event_
  /\ pc' = [pc EXCEPT !["host"] = "woh_block"]
  /\ UNCHANGED <<ready_, event_, queue, done, provider, nAct, paused>>
  /\ UNCHANGED <<streamVars, regVars, apiVars>>

\* wait_on_host returning as soon as the flag is set (cudaEventQuery)
wait_on_host_return_NoSync ==
  /\ pc["host"] = "woh_block"
  /\ pc' = [pc EXCEPT !["host"] = "returned"]
  /\ UNCHANGED <<ready_, event_, queue, done, provider, hostCap, nAct, paused>>
  /\ UNCHANGED <<streamVars, regVars, apiVars>>

\* wait_on_host: cudaEventSynchronize returns once the captured record has
\* been reached by the producer stream.
wait_on_host_return ==
  /\ pc["host"] = "woh_block"
  /\ done["prod"] >= hostCap
  /\ pc' = [pc EXCEPT !["host"] = "returned"]
  /\ UNCHANGED <<ready_, event_, queue, done, provider, hostCap, nAct, paused>>
  /\ UNCHANGED <<streamVars, regVars, apiVars>>

\* The device completes the next operation of stream s, in enqueue order; a
\* cross-queue wait completes only when the producer reached its record.
Execute(s) ==
  /\ done[s] < Len(queue[s])
  /\ LET op == queue[s][done[s] + 1]
     IN op.kind = "wait" => done["prod"] >= op.cap
  /\ done' = [done EXCEPT ![s] = @ + 1]
  /\ UNCHANGED <<ready_, event_, queue, provider, pc, hostCap, nAct, paused>>
  /\ UNCHANGED <<streamVars, regVars, apiVars>>

(***************************************************************************)
(* Stream command handles: RegisterCudaStreamHandles, CreateCudaStream,    *)
(* CudaStream::Flush.                                                      *)
(***************************************************************************)
\* the functions of this file that are handed to the registry
WaitCudaNotificationOnDevice == "WaitCudaNotificationOnDevice"
WaitCudaNotificationOnHost == "WaitCudaNotificationOnHost"
CreateCudaStreamFn == "CreateCudaStream"
Unregistered == "Unregistered"

\* a registry nothing was registered with: the registrations, in call order
EmptyHandleRegistry == [wait_fns |-> <<>>, create_fns |-> <<>>]

\* IStreamCommandHandleRegistry::RegisterWaitFn(producer, consumer, fn)
RegisterWaitFn(registry, producer, consumer, fn) ==
  [registry EXCEPT !.wait_fns = Append(@, <<producer, consumer, fn>>)]

\* IStreamCommandHandleRegistry::RegisterCreateStreamFn(provider, fn)
RegisterCreateStreamFn(registry, ep, fn) ==
  [registry EXCEPT !.create_fns = Append(@, <<ep, fn>>)]

\* the wait function registered for a producer/consumer pair
GetWaitHandle(registry, producer, consumer) ==
  LET at == {k \in 1..Len(registry.wait_fns) :
               /\ registry.wait_fns[k][1] = producer
               /\ registry.wait_fns[k][2] = consumer}
  IN IF at = {} THEN Unregistered
     ELSE registry.wait_fns[CHOOSE k \in at : \A j \in at : j <= k][3]

\* the stream-creation function registered for a provider
GetCreateStreamFn(registry, ep) ==
  LET at == {k \in 1..Len(registry.create_fns) : registry.create_fns[k][1] = ep}
  IN IF at = {} THEN Unregistered
     ELSE registry.create_fns[CHOOSE k \in at : \A j \in at : j <= k][2]

\* RegisterCudaStreamHandles registering the device wait for a CPU producer
RegisterCudaStreamHandles_WrongPair ==
  /\ stream_handle_registry = EmptyHandleRegistry
  /\ stream_handle_registry' =
       RegisterCreateStreamFn(
         RegisterWaitFn(
           RegisterWaitFn(stream_handle_registry,
                          kCpuExecutionProvider, kCudaExecutionProvider,
                          WaitCudaNotificationOnDevice),
           kCudaExecutionProvider, kCpuExecutionProvider, WaitCudaNotificationOnHost),
         kCudaExecutionProvider, CreateCudaStreamFn)
  /\ UNCHANGED <<created, flush>>
  /\ UNCHANGED <<syncVars, regVars, apiVars>>

\* RegisterCudaStreamHandles(stream_handle_registry), run once when the
\* provider is brought up.
RegisterCudaStreamHandles ==
  /\ stream_handle_registry = EmptyHandleRegistry
  /\ stream_handle_registry' =
       RegisterCreateStreamFn(
         RegisterWaitFn(
           RegisterWaitFn(stream_handle_registry,
                          kCudaExecutionProvider, kCudaExecutionProvider,
                          WaitCudaNotificationOnDevice),
           kCudaExecutionProvider, kCpuExecutionProvider, WaitCudaNotificationOnHost),
         kCudaExecutionProvider, CreateCudaStreamFn)
  /\ UNCHANGED <<created, flush>>
  /\ UNCHANGED <<syncVars, regVars, apiVars>>

\* the registry after RegisterCudaStreamHandles
RegisteredHandles ==
  [wait_fns |-> <<<<kCudaExecutionProvider, kCudaExecutionProvider,
                    WaitCudaNotificationOnDevice>>,
                  <<kCudaExecutionProvider, kCpuExecutionProvider,
                    WaitCudaNotificationOnHost>>>>,
   create_fns |-> <<<<kCudaExecutionProvider, CreateCudaStreamFn>>>>]

\* CreateCudaStream creating the native queue whatever the provider
CreateCudaStream_NoEnforce(s) ==
  /\ created[s] = "none"
  /\ created' = [created EXCEPT ![s] = "stream"]
  /\ UNCHANGED <<stream_handle_registry, flush>>
  /\ UNCHANGED <<syncVars, regVars, apiVars>>

\* CreateCudaStream(provider) for the provider of stream s: ORT_ENFORCE on
\* the provider type, then cudaStreamCreate and the CudaStream around it.
CreateCudaStream(s) ==
  /\ created[s] = "none"
  /\ created' = [created EXCEPT ![s] =
                   IF provider[s] = kCudaExecutionProvider THEN "stream" ELSE "thrown"]
  /\ UNCHANGED <<stream_handle_registry, flush>>
  /\ UNCHANGED <<syncVars, regVars, apiVars>>

NoFlush == [pc |-> "idle", stream |-> "", cap |-> 0]

\* A host thread calls Flush() on the CudaStream s: cudaStreamSynchronize
\* waits for the operations the queue holds at the call.
Flush_call(s) ==
  /\ flush = NoFlush
  /\ created[s] = "stream"
  /\ flush' = [pc |-> "blocked", stream |-> s, cap |-> Len(queue[s])]
  /\ UNCHANGED <<stream_handle_registry, created>>
  /\ UNCHANGED <<syncVars, regVars, apiVars>>

\* Flush() returning without a look at the queue (cudaStreamQuery)
Flush_return_NoSync ==
  /\ flush.pc = "blocked"
  /\ flush' = [flush EXCEPT !.pc = "returned"]
  /\ UNCHANGED <<stream_handle_registry, created>>
  /\ UNCHANGED <<syncVars, regVars, apiVars>>

\* Flush(): cudaStreamSynchronize returns once the device completed those
\* operations.
Flush_return ==
  /\ flush.pc = "blocked"
  /\ done[flush.stream] >= flush.cap
  /\ flush' = [flush EXCEPT !.pc = "returned"]
  /\ UNCHANGED <<stream_handle_registry, created>>
  /\ UNCHANGED <<syncVars, regVars, apiVars>>

(***************************************************************************)
(* Claims on the notification (specification SpecSync).                    *)
(***************************************************************************)
\* the cross-queue waits enqueued on stream s, by position
WaitsOn(s) == {i \in 1..Len(queue[s]) : queue[s][i].kind = "wait"}

\* the producer stream has reached (completed) its operation at index m
Reached(m) == done["prod"] >= m

IsMarker(m) == m \in 1..Len(queue["prod"]) /\ queue["prod"][m].kind = "record"

\* C1: while ready_ is false wait_on_device has not returned and has enqueued
\* nothing on the consumer stream; when it has returned, a wait on a marker
\* recorded by Activate() is on the consumer stream, and every operation of
\* the consumer stream at or after that wait has completed only if the
\* producer stream has reached that marker.
C1_WaitOnDeviceOrders ==
  /\ ~ready_ => /\ pc["consumer"] \notin {"wod_wait", "returned"}
                /\ WaitsOn("cons") = {}
  /\ pc["consumer"] = "returned" => WaitsOn("cons") # {}
  /\ \A w \in WaitsOn("cons") :
       /\ IsMarker(queue["cons"][w].cap)
       /\ done["cons"] >= w => Reached(queue["cons"][w].cap)

\* C1 witness: wait_on_device was called before Activate() (it paused on the
\* false flag), has returned, and a kernel enqueued after it has completed.
C1_Witness ==
  /\ "consumer" \in paused
  /\ pc["consumer"] = "returned"
  /\ \E w \in WaitsOn("cons") :
       /\ w < Len(queue["cons"])
       /\ done["cons"] > w
       /\ queue["cons"][w + 1].kind = "kernel"

\* C2: wait_on_host has returned only if ready_ is true and the producer
\* stream has completed the marker the synchronisation captured, which is a
\* marker recorded by Activate(): every operation before it has completed.
C2_WaitOnHostAfterMarker ==
  pc["host"] = "returned" =>
    /\ ready_
    /\ IsMarker(hostCap)
    /\ Reached(hostCap)

\* C2 witness: wait_on_host returned on a marker that had kernels before it.
C2_Witness ==
  /\ pc["host"] = "returned"
  /\ hostCap > 1
  /\ "host" \in paused

\* C3: ready_ implies that the event has been recorded on the producer
\* stream; a waiter past its spin phase, every enqueued wait and the host
\* synchronisation use an event that was recorded.
C3_RecordBeforeReady ==
  /\ ready_ => IsMarker(event_)
  /\ pc["consumer"] \in {"wod_wait", "returned"} => IsMarker(event_)
  /\ pc["host"] \in {"woh_sync", "woh_block", "returned"} => IsMarker(event_)
  /\ pc["host"] \in {"woh_block", "returned"} => IsMarker(hostCap)
  /\ \A w \in WaitsOn("cons") : IsMarker(queue["cons"][w].cap)

\* C3 witness: after a single Activate() both waiters are past their spin
\* phase while the marker is enqueued and not yet reached.
C3_Witness ==
  /\ nAct = 1
  /\ ready_
  /\ ~Reached(event_)
  /\ pc["consumer"] = "returned"
  /\ pc["host"] = "woh_block"

\* C4: ready_ is false until the first Activate() has stored it and true in
\* every state after; no step sets it back to false and only the store of
\* Activate() sets it.
C4_ReadyMonotone ==
  /\ [](ready_ <=> (nAct > 1 \/ (nAct = 1 /\ pc["producer"] # "act_store")))
  /\ [][(ready_ => ready_') /\ (~ready_ /\ ready_' => pc["producer"] = "act_store")]_vars

\* C4 witness: Activate() was called twice and both waits have returned.
C4_Witness ==
  /\ nAct = 2
  /\ pc["producer"] = "run"
  /\ ready_
  /\ pc["consumer"] = "returned"
  /\ pc["host"] = "returned"

\* C5: once the spin of wait_on_device is over, the call can enqueue the
\* wait and return whatever the producer stream has completed.
C5_WaitOnDeviceDoesNotBlock ==
  pc["consumer"] = "wod_wait" => ENABLED wait_on_device_enqueue

\* C5 witness: wait_on_device has returned and the producer stream has not
\* reached the marker the wait depends on.
C5_Witness ==
  /\ pc["consumer"] = "returned"
  /\ \E w \in WaitsOn("cons") : ~Reached(queue["cons"][w].cap)

(***************************************************************************)
(* Part 2: CreateCustomRegistry.                                           *)
(***************************************************************************)
\* ONNXTensorElementDataType values the model uses
UNDEFINED == "UNDEFINED"
FLOAT == "FLOAT"
INT64 == "INT64"
DOUBLE == "DOUBLE"

\* OrtCustomOpInputOutputCharacteristic
INPUT_OUTPUT_REQUIRED == "REQUIRED"
INPUT_OUTPUT_OPTIONAL == "OPTIONAL"
INPUT_OUTPUT_VARIADIC == "VARIADIC"

\* GetExecutionProviderType returning nullptr
NullProvider == "nullptr"

min_ort_version_with_optional_io_support == 8
min_ort_version_with_variadic_io_support == 14

\* An OrtCustomOp: what each accessor of the function-pointer table returns.
\* For a descriptor older than the version that introduced an accessor the
\* field is what the call happens to return.
CustomOp(name, version, inTypes, inChar, outTypes, outChar, va, ep) ==
  [name |-> name, version |-> version,
   inTypes |-> inTypes, inChar |-> inChar,
   outTypes |-> outTypes, outChar |-> outChar,
   inMinArity |-> va[1], inHomog |-> va[2],
   outMinArity |-> va[3], outHomog |-> va[4],
   ep |-> ep]

GetInputTypeCount(op) == Len(op.inTypes)
GetOutputTypeCount(op) == Len(op.outTypes)

\* int undefined: the inputs of op declared with the undefined type, counted
\* up to (not including) input i
UndefinedBefore(op, i) ==
  Cardinality({j \in 1..(i - 1) : op.inTypes[j] = UNDEFINED})

UndefinedInputs(op) == UndefinedBefore(op, GetInputTypeCount(op) + 1)

\* The formal parameter schema.Input(i, ...) is given for input i of op.
FormalInput(op, i) ==
  LET characteristic == op.inChar[i]
      gated == op.version >= min_ort_version_with_optional_io_support
      variadic == /\ gated
                  /\ characteristic # INPUT_OUTPUT_OPTIONAL
                  /\ op.version >= min_ort_version_with_variadic_io_support
                  /\ characteristic = INPUT_OUTPUT_VARIADIC
  IN [option |-> IF gated /\ characteristic = INPUT_OUTPUT_OPTIONAL THEN "Optional"
                 ELSE IF variadic THEN "Variadic" ELSE "Single",
      is_homogeneous |-> IF variadic THEN op.inHomog ELSE TRUE,
      min_arity |-> IF variadic THEN op.inMinArity ELSE 1,
      type_str |-> IF op.inTypes[i] = UNDEFINED
                   THEN <<"T", UndefinedBefore(op, i)>>
                   ELSE <<"Input", i - 1>>]

\* The formal parameter schema.Output(i, ...) is given for output i of op.
FormalOutput(op, i) ==
  LET characteristic == op.outChar[i]
      gated == op.version >= min_ort_version_with_optional_io_support
      variadic == /\ gated
                  /\ characteristic # INPUT_OUTPUT_OPTIONAL
                  /\ op.version >= min_ort_version_with_variadic_io_support
                  /\ characteristic = INPUT_OUTPUT_VARIADIC
  IN [option |-> IF gated /\ characteristic = INPUT_OUTPUT_OPTIONAL THEN "Optional"
                 ELSE IF variadic THEN "Variadic" ELSE "Single",
      is_homogeneous |-> IF variadic THEN op.outHomog ELSE TRUE,
      min_arity |-> IF variadic THEN op.outMinArity ELSE 1,
      type_str |-> IF op.outTypes[i] = UNDEFINED
                   THEN <<"T", 0>>
                   ELSE <<"Output", i - 1>>]

\* the enforce on the position of a variadic input left out
InputEnforceFails_Never(op, i) == FALSE

\* ORT_ENFORCE(i == input_count - 1, ...) fails for input i of op
InputEnforceFails(op, i) ==
  /\ FormalInput(op, i).option = "Variadic"
  /\ i # GetInputTypeCount(op)

\* ORT_ENFORCE(i == output_count - 1, ...) or ORT_ENFORCE(1 == undefined)
\* fails for output i of op
OutputEnforceFails(op, i) ==
  \/ /\ FormalOutput(op, i).option = "Variadic"
     /\ i # GetOutputTypeCount(op)
  \/ /\ op.outTypes[i] = UNDEFINED
     /\ op.outChar[i] = INPUT_OUTPUT_REQUIRED
     /\ UndefinedInputs(op) # 1

\* Building the schema of a new name throws
NewSchemaThrows(op) ==
  \/ \E i \in 1..GetInputTypeCount(op) : InputEnforceFails(op, i)
  \/ \E i \in 1..GetOutputTypeCount(op) : OutputEnforceFails(op, i)

\* The OpSchema built from the first descriptor of a name
NewSchema(op) ==
  [inputs |-> [i \in 1..GetInputTypeCount(op) |-> FormalInput(op, i)],
   outputs |-> [i \in 1..GetOutputTypeCount(op) |-> FormalOutput(op, i)]]

\* first message of a sequence of check results that is not ""
RECURSIVE FirstError(_)
FirstError(msgs) ==
  IF msgs = <<>> THEN ""
  ELSE IF Head(msgs) # "" THEN Head(msgs)
  ELSE FirstError(Tail(msgs))

\* The option a characteristic is expected to have been registered with
ExpectedOption(characteristic) ==
  IF characteristic = INPUT_OUTPUT_OPTIONAL THEN "Optional"
  ELSE IF characteristic = INPUT_OUTPUT_VARIADIC THEN "Variadic"
  ELSE "Single"

\* consistency check of input i of a later descriptor against the schema
CheckInput(schema, op, i) ==
  LET formal_parameter == schema.inputs[i]
  IN IF formal_parameter.option # ExpectedOption(op.inChar[i])
       THEN "custom op schemas mismatch, input option"
     ELSE IF formal_parameter.is_homogeneous # op.outHomog
       THEN "custom op schemas mismatch, input to keep same homogeneity"
     ELSE IF formal_parameter.min_arity # op.inMinArity
       THEN "custom op schemas mismatch, input to keep same arity"
     ELSE ""

\* consistency check of output i of a later descriptor against the schema
CheckOutput(schema, op, i) ==
  LET formal_parameter == schema.outputs[i]
  IN IF formal_parameter.option # ExpectedOption(op.outChar[i])
       THEN "custom op schemas mismatch, output option"
     ELSE IF formal_parameter.is_homogeneous # op.outHomog
       THEN "custom op schemas mismatch, output to keep same homogeneity"
     ELSE IF formal_parameter.min_arity # op.inMinArity
       THEN "custom op schemas mismatch, output to keep same arity"
     ELSE ""

\* The consistency check of a later descriptor: the message of the first
\* ORT_RETURN_IF_NOT that fails, "" when all pass.
ConsistencyCheck(schema, op) ==
  IF Len(schema.inputs) # GetInputTypeCount(op) THEN "input count does not match"
  ELSE LET ins == FirstError([i \in 1..Len(schema.inputs) |-> CheckInput(schema, op, i)])
       IN IF ins # "" THEN ins
          ELSE IF Len(schema.outputs) # GetOutputTypeCount(op)
            THEN "output count does not match"
          ELSE FirstError([i \in 1..Len(schema.outputs) |-> CheckOutput(schema, op, i)])

\* the first of the failing positions of 1..n, n + 1 when none fails
FirstFailing(n, failing) ==
  IF failing = {} THEN n + 1
  ELSE CHOOSE i \in failing : \A j \in failing : i <= j

\* The accessors the input loop of a new schema invokes on op; the loop ends
\* at the first input whose ORT_ENFORCE fails.
NewInputCalls(op) ==
  LET n == GetInputTypeCount(op)
      f == FirstFailing(n, {i \in 1..n : InputEnforceFails(op, i)})
      reached == {i \in 1..n : i <= f}
  IN (IF op.version >= min_ort_version_with_optional_io_support /\ reached # {}
        THEN {"GetInputCharacteristic"} ELSE {})
     \cup
     (IF \E i \in reached : FormalInput(op, i).option = "Variadic" /\ i = n
        THEN {"GetVariadicInputMinArity", "GetVariadicInputHomogeneity"} ELSE {})

\* The accessors the output loop of a new schema invokes on op: the gated
\* query of the characteristic, and the query made for an output of
\* undefined type whatever the version.
NewOutputCalls(op) ==
  LET n == GetOutputTypeCount(op)
      f == FirstFailing(n, {i \in 1..n : OutputEnforceFails(op, i)})
      reached == {i \in 1..n : i <= f}
      variadicFails(i) == FormalOutput(op, i).option = "Variadic" /\ i # n
  IN (IF \/ op.version >= min_ort_version_with_optional_io_support /\ reached # {}
         \/ \E i \in reached : op.outTypes[i] = UNDEFINED /\ ~variadicFails(i)
        THEN {"GetOutputCharacteristic"} ELSE {})
     \cup
     (IF \E i \in reached : FormalOutput(op, i).option = "Variadic" /\ i = n
        THEN {"GetVariadicOutputMinArity", "GetVariadicOutputHomogeneity"} ELSE {})

NewSchemaCalls(op) ==
  NewInputCalls(op)
  \cup (IF \E i \in 1..GetInputTypeCount(op) : InputEnforceFails(op, i)
          THEN {} ELSE NewOutputCalls(op))

OptionMismatch ==
  {"custom op schemas mismatch, input option", "custom op schemas mismatch, output option"}
HomogeneityMismatch ==
  {"custom op schemas mismatch, input to keep same homogeneity",
   "custom op schemas mismatch, output to keep same homogeneity"}

\* The accessors one position of the consistency check invokes, msg being
\* the outcome of the check of that position.
PositionCalls(characteristicFn, msg) ==
  {characteristicFn}
  \cup (IF msg \in OptionMismatch THEN {} ELSE {"GetVariadicOutputHomogeneity"})
  \cup (IF msg \in OptionMismatch \cup HomogeneityMismatch
          THEN {} ELSE {"GetVariadicInputMinArity"})

\* The accessors the consistency check invokes on a later descriptor, up to
\* the ORT_RETURN_IF_NOT that fails.
ConsistencyCalls(schema, op) ==
  IF Len(schema.inputs) # GetInputTypeCount(op) THEN {}
  ELSE LET nin == Len(schema.inputs)
           fin == FirstFailing(nin, {i \in 1..nin : CheckInput(schema, op, i) # ""})
           inCalls == UNION {PositionCalls("GetInputCharacteristic", CheckInput(schema, op, i)) :
                               i \in {j \in 1..nin : j <= fin}}
       IN IF fin <= nin \/ Len(schema.outputs) # GetOutputTypeCount(op) THEN inCalls
          ELSE LET nout == Len(schema.outputs)
                   fout == FirstFailing(nout,
                             {i \in 1..nout : CheckOutput(schema, op, i) # ""})
               IN inCalls \cup
                  UNION {PositionCalls("GetOutputCharacteristic", CheckOutput(schema, op, i)) :
                           i \in {j \in 1..nout : j <= fout}}

\* if (op->version > 12) def_builder.InputMemoryType(op->GetInputMemoryType(op, i), i)
MemoryTypeCalls(op) ==
  IF op.version > 12 /\ GetInputTypeCount(op) > 0 THEN {"GetInputMemoryType"} ELSE {}

\* The version-dependent accessors one loop iteration invokes on op.
AccessorCalls(op, isNew, schema) ==
  IF isNew
    THEN NewSchemaCalls(op) \cup (IF NewSchemaThrows(op) THEN {} ELSE MemoryTypeCalls(op))
    ELSE ConsistencyCalls(schema, op)
         \cup (IF ConsistencyCheck(schema, op) = "" THEN MemoryTypeCalls(op) ELSE {})

\* The type vector pushed on type_map[name]: input types, then output types
TypeVec(op) == op.inTypes \o op.outTypes

\* the kernel put under the CPU provider whatever the descriptor declares
KernelProvider_AlwaysCpu(op) == kCpuExecutionProvider

\* def_builder.Provider(...)
KernelProvider(op) ==
  IF op.ep # NullProvider THEN op.ep ELSE kCpuExecutionProvider

\* a KernelDef built without the type constraints of the inputs and outputs
KernelDef_NoTypes(op, undefined) ==
  [name |-> op.name,
   provider |-> KernelProvider(op),
   constraints |-> {<<"T", i, "AllTensorTypes">> : i \in 0..(undefined - 1)}]

\* The KernelDef built for op; undefined is the local counter, which is
\* advanced only while the schema of a new name is built.
KernelDef(op, undefined) ==
  [name |-> op.name,
   provider |-> KernelProvider(op),
   constraints |->
     {<<"T", i, "AllTensorTypes">> : i \in 0..(undefined - 1)}
     \cup {<<"Input", i - 1, op.inTypes[i]>> :
             i \in {j \in 1..GetInputTypeCount(op) : op.inTypes[j] # UNDEFINED}}
     \cup {<<"Output", i - 1, op.outTypes[i]>> :
             i \in {j \in 1..GetOutputTypeCount(op) : op.outTypes[j] # UNDEFINED}}]

\* The type binding of a kernel definition: what it constrains to a
\* concrete type (a constraint to all tensor types binds nothing).
TypeBinding(def) == {c \in def.constraints : c[3] # "AllTensorTypes"}

\* CustomRegistry::RegisterCustomKernel refuses a kernel whose name, domain,
\* version, provider and type binding equal those of a registered one
\* (domain and version are those of the one domain, SinceVersion(1)).
KernelConflict(kernels, def) ==
  \E k \in 1..Len(kernels) :
    /\ kernels[k].name = def.name
    /\ kernels[k].provider = def.provider
    /\ TypeBinding(kernels[k]) = TypeBinding(def)

EmptyMap == [n \in {} |-> <<>>]

MapPut(m, k, v) == [n \in (DOMAIN m) \cup {k} |-> IF n = k THEN v ELSE m[n]]

EmptyRegistry == [kernels |-> <<>>, schemas |-> EmptyMap]

NoCall == [name |-> "", inputs |-> <<>>, before |-> <<>>, after |-> <<>>, matched |-> 0]

\* output = std::make_shared<CustomRegistry>(), schema_map and type_map empty
RegistryInit ==
  /\ idx = 0
  /\ schema_map = EmptyMap
  /\ type_map = EmptyMap
  /\ output = EmptyRegistry
  /\ status = "running"
  /\ error = ""
  /\ infer = NoCall
  /\ calls = {}

\* One iteration of `for (const auto* op : domain->custom_ops_)`.
ProcessCustomOp ==
  /\ status = "running"
  /\ idx < Len(custom_ops_)
  /\ LET op == custom_ops_[idx + 1]
         isNew == op.name \notin DOMAIN schema_map
         undefined == IF isNew THEN UndefinedInputs(op) ELSE 0
         mismatch == IF isNew THEN "" ELSE ConsistencyCheck(schema_map[op.name], op)
         def == KernelDef(op, undefined)
         schema == IF isNew THEN NewSchema(op) ELSE schema_map[op.name]
     IN /\ idx' = idx + 1
        /\ calls' = calls \cup {<<fn, op.version>> : fn \in AccessorCalls(op, isNew, schema)}
        /\ IF isNew /\ NewSchemaThrows(op)
             THEN /\ status' = "THROW"
                  /\ error' = "ORT_ENFORCE"
                  /\ type_map' = MapPut(type_map, op.name, <<>>)
                  /\ UNCHANGED <<schema_map, output>>
           ELSE IF mismatch # ""
             THEN /\ status' = "FAIL"
                  /\ error' = mismatch
                  /\ UNCHANGED <<schema_map, type_map, output>>
           ELSE /\ schema_map' = IF isNew THEN MapPut(schema_map, op.name, NewSchema(op))
                                 ELSE schema_map
                /\ type_map' = MapPut(type_map, op.name,
                                 Append(IF isNew THEN <<>> ELSE type_map[op.name],
                                        TypeVec(op)))
                /\ IF KernelConflict(output.kernels, def)
                     THEN /\ status' = "FAIL"
                          /\ error' = "kernel conflict"
                          /\ UNCHANGED output
                     ELSE /\ output' = [output EXCEPT !.kernels = Append(@, def)]
                          /\ UNCHANGED <<status, error>>
  /\ UNCHANGED <<custom_ops_, infer>>
  /\ UNCHANGED <<syncVars, streamVars, apiVars>>

\* After the loop: every schema gets its infer_fn over type_map[name] and
\* output->RegisterOpSet(schemas, ...) registers them; Status::OK().
RegisterOpSet ==
  /\ status = "running"
  /\ idx = Len(custom_ops_)
  /\ output' = [output EXCEPT !.schemas =
                  [n \in DOMAIN schema_map |->
                     [schema |-> schema_map[n], type_vecs |-> type_map[n]]]]
  /\ status' = "OK"
  /\ UNCHANGED <<custom_ops_, idx, schema_map, type_map, error, infer, calls>>
  /\ UNCHANGED <<syncVars, streamVars, apiVars>>

(***************************************************************************)
(* Part 3: the inference function of a registered schema.                  *)
(***************************************************************************)
\* infer_ctx.getInputType(i) == nullptr: the input has no type yet
NoType == "null"
\* an output TypeProto whose elem_type was never set
Unset == "unset"

\* input_types: the element type of each input, UNDEFINED for an input
\* without a type
InputTypes(inputs) ==
  [i \in 1..Len(inputs) |-> IF inputs[i] = NoType THEN UNDEFINED ELSE inputs[i]]

\* the loop over the inputs comparing an input without a type like any
\* other: it matches an undefined entry only
RECURSIVE MatchInputs_UnknownCompared(_, _, _, _)
MatchInputs_UnknownCompared(type_vec, input_types, i, undef) ==
  IF i > Len(input_types) THEN [match |-> TRUE, undef |-> undef]
  ELSE IF type_vec[i] = UNDEFINED
    THEN MatchInputs_UnknownCompared(type_vec, input_types, i + 1, input_types[i])
  ELSE IF type_vec[i] # input_types[i]
    THEN [match |-> FALSE, undef |-> undef]
  ELSE MatchInputs_UnknownCompared(type_vec, input_types, i + 1, undef)

\* The loop over the inputs for one type_vec, from input i on, undef being
\* the local of that name: whether the loop ended with match, and undef.
RECURSIVE MatchInputs(_, _, _, _)
MatchInputs(type_vec, input_types, i, undef) ==
  IF i > Len(input_types) THEN [match |-> TRUE, undef |-> undef]
  ELSE IF input_types[i] = UNDEFINED
    THEN MatchInputs(type_vec, input_types, i + 1, undef)
  ELSE IF type_vec[i] = UNDEFINED
    THEN MatchInputs(type_vec, input_types, i + 1, input_types[i])
  ELSE IF type_vec[i] # input_types[i]
    THEN [match |-> FALSE, undef |-> undef]
  ELSE MatchInputs(type_vec, input_types, i + 1, undef)

\* the output types written for a matched type_vec
WriteOutputs(type_vec, num_inputs, num_outputs, undef) ==
  [o \in 1..num_outputs |->
     IF type_vec[num_inputs + o] = UNDEFINED THEN undef ELSE type_vec[num_inputs + o]]

\* The loop over type_vecs from index k on, without the break: a later
\* match overwrites the outputs of an earlier one.
RECURSIVE InferFrom_NoBreak(_, _, _, _)
InferFrom_NoBreak(type_vecs, k, input_types, res) ==
  IF k > Len(type_vecs) THEN res
  ELSE LET type_vec == type_vecs[k]
           num_inputs == Len(input_types)
           num_outputs == Len(res.outputs)
           m == MatchInputs(type_vec, input_types, 1, UNDEFINED)
       IN IF Len(type_vec) = num_inputs + num_outputs /\ m.match
            THEN InferFrom_NoBreak(type_vecs, k + 1, input_types,
                   [outputs |-> WriteOutputs(type_vec, num_inputs, num_outputs, m.undef),
                    matched |-> k])
            ELSE InferFrom_NoBreak(type_vecs, k + 1, input_types, res)

\* The loop `for (const auto& type_vec : type_vecs)` from index k on; res
\* holds the output types and the index of the matched type_vec (0: none).
RECURSIVE InferFrom(_, _, _, _)
InferFrom(type_vecs, k, input_types, res) ==
  IF k > Len(type_vecs) THEN res
  ELSE LET type_vec == type_vecs[k]
           num_inputs == Len(input_types)
           num_outputs == Len(res.outputs)
           m == MatchInputs(type_vec, input_types, 1, UNDEFINED)
       IN IF Len(type_vec) # num_inputs + num_outputs
            THEN InferFrom(type_vecs, k + 1, input_types, res)
          ELSE IF m.match
            THEN [outputs |-> WriteOutputs(type_vec, num_inputs, num_outputs, m.undef),
                  matched |-> k]
          ELSE InferFrom(type_vecs, k + 1, input_types, res)

\* infer_fn resetting the output types when nothing matched
infer_fn_ResetOnNoMatch(type_vecs, inputs, outputs) ==
  LET res == InferFrom(type_vecs, 1, InputTypes(inputs),
                       [outputs |-> outputs, matched |-> 0])
  IN IF res.matched # 0 THEN res
     ELSE [outputs |-> [o \in 1..Len(outputs) |-> UNDEFINED], matched |-> 0]

\* infer_fn of a schema, closed over type_vecs, on a node with the given
\* input types and output types
infer_fn(type_vecs, inputs, outputs) ==
  InferFrom(type_vecs, 1, InputTypes(inputs), [outputs |-> outputs, matched |-> 0])

\* The graph runs the inference function of a registered schema on a node
\* (the function keeps no state from one call to the next: one call is
\* followed per run).
Infer(name, inputs, outputs) ==
  /\ status = "OK"
  /\ infer = NoCall
  /\ name \in DOMAIN output.schemas
  /\ LET res == infer_fn(output.schemas[name].type_vecs, inputs, outputs)
     IN infer' = [name |-> name, inputs |-> inputs, before |-> outputs,
                  after |-> res.outputs, matched |-> res.matched]
  /\ UNCHANGED <<custom_ops_, idx, schema_map, type_map, output, status, error, calls>>
  /\ UNCHANGED <<syncVars, streamVars, apiVars>>

(***************************************************************************)
(* Part 4: CustomOpKernel, the kernel instance made by kernel_create_fn.   *)
(***************************************************************************)
\* the highest API version the host supports
ORT_API_VERSION == 14

\* what the plugin's CreateKernel may return
KernelHandles == {"state1", "state2", "nullptr"}

\* the versions a plugin may declare
PluginVersions == 1..(ORT_API_VERSION + 2)

NoKernel == [version |-> 0, state |-> "none", op_kernel_ |-> "unset",
             log |-> <<>>, computed |-> 0]

\* the constructor calling CreateKernel whatever the version
CustomOpKernel_NoVersionCheck(version, handle) ==
  /\ kernel.state = "none"
  /\ kernel' = [version |-> version, state |-> "alive", op_kernel_ |-> handle,
                log |-> <<<<"CreateKernel", handle>>>>, computed |-> 0]
  /\ UNCHANGED attr
  /\ UNCHANGED <<syncVars, streamVars, regVars>>

\* kernel_create_fn: std::make_unique<CustomOpKernel>(info, *op) for a
\* descriptor of the given version whose CreateKernel returns handle. The
\* constructor throws before CreateKernel for a version above the host's
\* (the destructor of an object whose constructor threw does not run).
CustomOpKernel(version, handle) ==
  /\ kernel.state = "none"
  /\ kernel' = IF version > ORT_API_VERSION
                 THEN [kernel EXCEPT !.version = version, !.state = "thrown"]
                 ELSE [version |-> version, state |-> "alive", op_kernel_ |-> handle,
                       log |-> <<<<"CreateKernel", handle>>>>, computed |-> 0]
  /\ UNCHANGED attr
  /\ UNCHANGED <<syncVars, streamVars, regVars>>

\* CustomOpKernel::Compute: op_.KernelCompute(op_kernel_, ctx), Status::OK()
Compute ==
  /\ kernel.state = "alive"
  /\ kernel.computed < MaxCompute
  /\ kernel' = [kernel EXCEPT !.log = Append(@, <<"KernelCompute", kernel.op_kernel_>>),
                              !.computed = @ + 1]
  /\ UNCHANGED attr
  /\ UNCHANGED <<syncVars, streamVars, regVars>>

\* the destructor releasing the instance without a call of KernelDestroy
DestroyKernel_NoCall ==
  /\ kernel.state = "alive"
  /\ kernel' = [kernel EXCEPT !.state = "destroyed"]
  /\ UNCHANGED attr
  /\ UNCHANGED <<syncVars, streamVars, regVars>>

\* ~CustomOpKernel: op_.KernelDestroy(op_kernel_)
DestroyKernel ==
  /\ kernel.state = "alive"
  /\ kernel' = [kernel EXCEPT !.log = Append(@, <<"KernelDestroy", kernel.op_kernel_>>),
                              !.state = "destroyed"]
  /\ UNCHANGED attr
  /\ UNCHANGED <<syncVars, streamVars, regVars>>

(***************************************************************************)
(* Part 5: attribute queries of OrtApis (KernelInfoGetAttribute_string,    *)
(* KernelInfoGetAttributeArray_float / _int64).                            *)
(***************************************************************************)
\* out == nullptr
NullBuffer == [null |-> TRUE, cells |-> <<>>]
\* a caller's buffer of n cells, each holding fill
Buffer(n, fill) == [null |-> FALSE, cells |-> [i \in 1..n |-> fill]]

\* std::memcpy(out, data, n): the first n cells of out become data
Memcpy(cells, data) ==
  [i \in 1..Len(cells) |-> IF i <= Len(data) THEN data[i] ELSE cells[i]]

\* CopyDataFromVectorToMemory comparing with > where it should with >=
CopyDataFromVectorToMemory_Strict(values, out, size) ==
  IF out.null
    THEN [status |-> "OK", out |-> out, size |-> Len(values)]
  ELSE IF size > Len(values)
    THEN [status |-> "OK", out |-> [out EXCEPT !.cells = Memcpy(@, values)],
          size |-> Len(values)]
  ELSE [status |-> "Result buffer is not large enough", out |-> out,
        size |-> Len(values)]

\* CopyDataFromVectorToMemory(values, out, size): the status, the buffer
\* and *size after the call
CopyDataFromVectorToMemory(values, out, size) ==
  IF out.null
    THEN [status |-> "OK", out |-> out, size |-> Len(values)]
  ELSE IF size >= Len(values)
    THEN [status |-> "OK", out |-> [out EXCEPT !.cells = Memcpy(@, values)],
          size |-> Len(values)]
  ELSE [status |-> "Result buffer is not large enough", out |-> out,
        size |-> Len(values)]

\* KernelInfoGetAttributeArray_float / _int64: GetAttrs, then the copy when
\* the attribute was found
KernelInfoGetAttributeArray(found, values, out, size) ==
  IF found THEN CopyDataFromVectorToMemory(values, out, size)
  ELSE [status |-> "GetAttrs failed", out |-> out, size |-> size]

\* the zero byte that ends a C string
NUL == "NUL"

\* KernelInfoGetAttribute_string writing the characters without the
\* terminator
KernelInfoGetAttribute_string_NoTerminator(found, value, out, size) ==
  IF ~found THEN [status |-> "GetAttr failed", out |-> out, size |-> size]
  ELSE IF out.null
    THEN [status |-> "OK", out |-> out, size |-> Len(value) + 1]
  ELSE IF size >= Len(value) + 1
    THEN [status |-> "OK",
          out |-> [out EXCEPT !.cells = Memcpy(@, value)],
          size |-> Len(value) + 1]
  ELSE [status |-> "Result buffer is not large enough", out |-> out,
        size |-> Len(value) + 1]

\* KernelInfoGetAttribute_string(info, name, out, size)
KernelInfoGetAttribute_string(found, value, out, size) ==
  IF ~found THEN [status |-> "GetAttr failed", out |-> out, size |-> size]
  ELSE IF out.null
    THEN [status |-> "OK", out |-> out, size |-> Len(value) + 1]
  ELSE IF size >= Len(value) + 1
    THEN [status |-> "OK",
          out |-> [out EXCEPT !.cells = Memcpy(@, Append(value, NUL))],
          size |-> Len(value) + 1]
  ELSE [status |-> "Result buffer is not large enough", out |-> out,
        size |-> Len(value) + 1]

\* the attribute a kernel info holds under the queried name, and the calls
\* made for it
NoQuery == [kind |-> "none", found |-> FALSE, value |-> <<>>, queries |-> <<>>]

\* what an unwritten cell of a caller's buffer holds
Fill(kind) == IF kind = "int64" THEN 0 ELSE "?"

\* one call of the query of attr.kind with buffer out and *size = size
QueryResult(out, size) ==
  IF attr.kind = "string"
    THEN KernelInfoGetAttribute_string(attr.found, attr.value, out, size)
    ELSE KernelInfoGetAttributeArray(attr.found, attr.value, out, size)

\* A kernel queries the attribute: with a null buffer and any *size, or
\* with a buffer of n cells and *size = n.
QueryAttribute(out, size) ==
  /\ attr.kind # "none"
  /\ Len(attr.queries) < MaxQueries
  /\ LET res == QueryResult(out, size)
     IN attr' = [attr EXCEPT !.queries =
                   Append(@, [out |-> out, size |-> size, status |-> res.status,
                              out_after |-> res.out, size_after |-> res.size])]
  /\ UNCHANGED kernel
  /\ UNCHANGED <<syncVars, streamVars, regVars>>

\* the attributes and the buffers of the queries
Chars == {"a", "b"}
Floats == {"1.5", "2.5"}
Int64s == {1, 2}

AttributeValues(kind) ==
  UNION {[1..n -> IF kind = "string" THEN Chars
                  ELSE IF kind = "float" THEN Floats ELSE Int64s] : n \in 0..MaxAttrLen}

CallerBuffers(kind) ==
  {NullBuffer} \cup {Buffer(n, Fill(kind)) : n \in 0..(MaxAttrLen + 1)}

(***************************************************************************)
(* The descriptors the domains are drawn from.                             *)
(***************************************************************************)
Characteristics == {INPUT_OUTPUT_REQUIRED, INPUT_OUTPUT_OPTIONAL, INPUT_OUTPUT_VARIADIC}

\* <<GetVariadicInputMinArity, GetVariadicInputHomogeneity,
\*   GetVariadicOutputMinArity, GetVariadicOutputHomogeneity>>
DefaultVariadic == <<1, TRUE, 1, TRUE>>
VariadicAttrs ==
  {DefaultVariadic, <<2, TRUE, 1, TRUE>>, <<1, FALSE, 1, TRUE>>,
   <<1, TRUE, 2, TRUE>>, <<1, TRUE, 1, FALSE>>}

\* Descriptors that differ in version, characteristics and variadic
\* attributes, each in a float and an int64 instantiation.
ShapeOps ==
  {CustomOp("Foo", v, <<t>>, <<c>>, <<t>>, <<INPUT_OUTPUT_REQUIRED>>,
            DefaultVariadic, NullProvider) :
     v \in {7, 8, 14}, c \in Characteristics, t \in {FLOAT, INT64}}
  \cup
  {CustomOp("Foo", 14, <<t, t>>, <<INPUT_OUTPUT_REQUIRED, INPUT_OUTPUT_VARIADIC>>,
            <<t>>, <<oc>>, va, NullProvider) :
     oc \in {INPUT_OUTPUT_REQUIRED, INPUT_OUTPUT_VARIADIC},
     va \in VariadicAttrs, t \in {FLOAT, INT64}}
  \cup
  {CustomOp("Foo", 14, <<FLOAT, FLOAT>>, <<c, INPUT_OUTPUT_REQUIRED>>,
            <<FLOAT>>, <<INPUT_OUTPUT_REQUIRED>>, DefaultVariadic, NullProvider) :
     c \in {INPUT_OUTPUT_REQUIRED, INPUT_OUTPUT_VARIADIC}}
  \cup
  {CustomOp("Bar", 14, <<FLOAT>>, <<INPUT_OUTPUT_REQUIRED>>,
            <<FLOAT>>, <<INPUT_OUTPUT_REQUIRED>>, DefaultVariadic, NullProvider)}
  \cup
  \* versions around the one that introduced GetInputMemoryType
  {CustomOp("Foo", v, <<FLOAT>>, <<INPUT_OUTPUT_REQUIRED>>,
            <<FLOAT>>, <<INPUT_OUTPUT_REQUIRED>>, DefaultVariadic, NullProvider) :
     v \in {12, 13}}
  \cup
  \* an output of undefined type, declared by a descriptor older than the
  \* characteristic queries and by one that has them
  {CustomOp("Foo", v, <<UNDEFINED>>, <<INPUT_OUTPUT_REQUIRED>>,
            <<UNDEFINED>>, <<INPUT_OUTPUT_REQUIRED>>, DefaultVariadic, NullProvider) :
     v \in {7, 14}}
  \cup
  \* a variadic output that is not the last output
  {CustomOp("Foo", 14, <<FLOAT>>, <<INPUT_OUTPUT_REQUIRED>>,
            <<FLOAT, FLOAT>>, <<c, INPUT_OUTPUT_REQUIRED>>, DefaultVariadic, NullProvider) :
     c \in {INPUT_OUTPUT_REQUIRED, INPUT_OUTPUT_VARIADIC}}
  \cup
  \* descriptors that declare their execution provider
  {CustomOp("Foo", 14, <<FLOAT>>, <<INPUT_OUTPUT_REQUIRED>>,
            <<FLOAT>>, <<INPUT_OUTPUT_REQUIRED>>, DefaultVariadic, ep) :
     ep \in {kCudaExecutionProvider, kCpuExecutionProvider}}

\* Two-input descriptors that differ in their declared types, undefined
\* (templated) types included; an output of undefined type is declared
\* required or optional.
TypeOps ==
  {CustomOp("Foo", 14, in, <<INPUT_OUTPUT_REQUIRED, INPUT_OUTPUT_REQUIRED>>,
            <<out>>, <<oc>>, DefaultVariadic, NullProvider) :
     in \in {<<FLOAT, FLOAT>>, <<INT64, INT64>>, <<UNDEFINED, UNDEFINED>>,
             <<UNDEFINED, FLOAT>>, <<FLOAT, UNDEFINED>>},
     out \in {FLOAT, INT64},
     oc \in {INPUT_OUTPUT_REQUIRED}}
  \cup
  {CustomOp("Foo", 14, in, <<INPUT_OUTPUT_REQUIRED, INPUT_OUTPUT_REQUIRED>>,
            <<UNDEFINED>>, <<oc>>, DefaultVariadic, NullProvider) :
     in \in {<<FLOAT, FLOAT>>, <<INT64, INT64>>, <<UNDEFINED, UNDEFINED>>,
             <<UNDEFINED, FLOAT>>, <<FLOAT, UNDEFINED>>},
     oc \in {INPUT_OUTPUT_REQUIRED, INPUT_OUTPUT_OPTIONAL}}
  \cup
  \* descriptors that declare their execution provider
  {CustomOp("Foo", 14, in, <<INPUT_OUTPUT_REQUIRED, INPUT_OUTPUT_REQUIRED>>,
            <<FLOAT>>, <<INPUT_OUTPUT_REQUIRED>>, DefaultVariadic, ep) :
     in \in {<<FLOAT, FLOAT>>, <<UNDEFINED, FLOAT>>},
     ep \in {kCudaExecutionProvider, kCpuExecutionProvider}}

\* the types of the inputs of a node: known element types, or no type yet
NodeInputs ==
  UNION {[1..n -> {FLOAT, INT64, DOUBLE, NoType}] : n \in 1..2}

\* the output types of a node before inference
NodeOutputs == {<<Unset>>, <<DOUBLE>>}

(***************************************************************************)
(* Claims on registration (specification SpecReg).                         *)
(***************************************************************************)
\* What a descriptor declares for a position: its option kind and, for a
\* variadic parameter, its own homogeneity and minimum arity.
Declared(characteristic, homog, min_arity) ==
  [option |-> ExpectedOption(characteristic),
   is_homogeneous |-> IF characteristic = INPUT_OUTPUT_VARIADIC THEN homog ELSE TRUE,
   min_arity |-> IF characteristic = INPUT_OUTPUT_VARIADIC THEN min_arity ELSE 1]

DeclaredInput(op, i) == Declared(op.inChar[i], op.inHomog, op.inMinArity)
DeclaredOutput(op, i) == Declared(op.outChar[i], op.outHomog, op.outMinArity)

DeclaredShape(op) ==
  [inputs |-> [i \in 1..GetInputTypeCount(op) |-> DeclaredInput(op, i)],
   outputs |-> [i \in 1..GetOutputTypeCount(op) |-> DeclaredOutput(op, i)]]

ShapeOfParameter(fp) ==
  [option |-> fp.option, is_homogeneous |-> fp.is_homogeneous, min_arity |-> fp.min_arity]

\* the shape a schema was registered with
SchemaShape(schema) ==
  [inputs |-> [i \in 1..Len(schema.inputs) |-> ShapeOfParameter(schema.inputs[i])],
   outputs |-> [i \in 1..Len(schema.outputs) |-> ShapeOfParameter(schema.outputs[i])]]

\* a descriptor of an API version that has every accessor, with variadic
\* parameters in last position only
WellFormed(op) ==
  /\ op.version >= min_ort_version_with_variadic_io_support
  /\ \A i \in 1..(GetInputTypeCount(op) - 1) : op.inChar[i] # INPUT_OUTPUT_VARIADIC
  /\ \A i \in 1..(GetOutputTypeCount(op) - 1) : op.outChar[i] # INPUT_OUTPUT_VARIADIC

\* the descriptor the loop processed last
LastOp == custom_ops_[idx]

\* the last processed descriptor came after another of the same name
LastIsLater ==
  /\ idx >= 2
  /\ \E j \in 1..(idx - 1) : custom_ops_[j].name = LastOp.name

\* the call returned a schema mismatch found by the consistency check
SchemaMismatch == status = "FAIL" /\ error # "kernel conflict"

\* C6: descriptors of one domain that share a name, have identical
\* formal-parameter shapes and distinct type bindings are all accepted, and
\* the call ends OK with one schema for the name holding one type binding
\* per descriptor, in registration order.
C6_IdenticalShapesRegister ==
  ( /\ Len(custom_ops_) >= 1
    /\ \A i \in 1..Len(custom_ops_) :
         /\ WellFormed(custom_ops_[i])
         /\ custom_ops_[i].name = custom_ops_[1].name
         /\ DeclaredShape(custom_ops_[i]) = DeclaredShape(custom_ops_[1])
    /\ \A i, j \in 1..Len(custom_ops_) :
         i # j => TypeVec(custom_ops_[i]) # TypeVec(custom_ops_[j]) )
  => /\ status \in {"running", "OK"}
     /\ status = "OK" =>
          /\ DOMAIN output.schemas = {custom_ops_[1].name}
          /\ output.schemas[custom_ops_[1].name].type_vecs
               = [i \in 1..Len(custom_ops_) |-> TypeVec(custom_ops_[i])]

\* C7: when the last processed descriptor differs in option kind at some
\* position from the first descriptor of its name, the call has failed with
\* a schema mismatch and the registry holds no schema and no kernel.
C7_MismatchRegistersNothing ==
  ( /\ LastIsLater
    /\ \A i \in 1..idx : WellFormed(custom_ops_[i])
    /\ \E j \in 1..(idx - 1) :
         /\ custom_ops_[j].name = LastOp.name
         /\ GetInputTypeCount(custom_ops_[j]) = GetInputTypeCount(LastOp)
         /\ GetOutputTypeCount(custom_ops_[j]) = GetOutputTypeCount(LastOp)
         /\ \/ \E i \in 1..GetInputTypeCount(LastOp) :
                 custom_ops_[j].inChar[i] # LastOp.inChar[i]
            \/ \E i \in 1..GetOutputTypeCount(LastOp) :
                 custom_ops_[j].outChar[i] # LastOp.outChar[i] )
  => /\ SchemaMismatch
     /\ output.kernels = <<>>
     /\ DOMAIN output.schemas = {}

\* C8: a later descriptor of a registered name is rejected exactly when what
\* it declares (parameter counts and, per position, option kind and its own
\* homogeneity and minimum arity for that kind of parameter) differs from
\* the shape of the schema.
C8_RejectedIffDisagrees ==
  ( /\ LastIsLater
    /\ \A i \in 1..idx : WellFormed(custom_ops_[i]) )
  => ( SchemaMismatch <=>
         DeclaredShape(LastOp) # SchemaShape(schema_map[LastOp.name]) )

\* the identity a kernel is registered under: name, provider and type
\* binding (domain and version are those of the one domain)
IdentityKey(op) ==
  <<op.name,
    IF op.ep = NullProvider THEN kCpuExecutionProvider ELSE op.ep,
    TypeVec(op)>>

\* the last processed descriptor reached RegisterCustomKernel with the
\* identity of a descriptor registered before it
LastIsDuplicate ==
  /\ LastIsLater
  /\ ConsistencyCheck(schema_map[LastOp.name], LastOp) = ""
  /\ \E j \in 1..(idx - 1) : IdentityKey(custom_ops_[j]) = IdentityKey(LastOp)

IntroducedIn(fn) ==
  IF fn \in {"GetInputCharacteristic", "GetOutputCharacteristic"} THEN 8
  ELSE IF fn = "GetInputMemoryType" THEN 13
  ELSE 14

\* C14: every version-gated accessor that registration invoked was invoked
\* on a descriptor whose version is at least the version that introduced
\* it (characteristics 8, memory type 13, variadic arity and homogeneity
\* 14), on the first registration of a name and on the consistency check.
C14_AccessorsVersionGated ==
  \A c \in calls : c[2] >= IntroducedIn(c[1])

\* a descriptor of a version that has variadic parameters marks an input or
\* an output other than the last as variadic
NonLastVariadic(op) ==
  /\ op.version >= min_ort_version_with_variadic_io_support
  /\ \/ \E i \in 1..(GetInputTypeCount(op) - 1) : op.inChar[i] = INPUT_OUTPUT_VARIADIC
     \/ \E i \in 1..(GetOutputTypeCount(op) - 1) : op.outChar[i] = INPUT_OUTPUT_VARIADIC

C22_ProviderDefaultsToCpu ==
  \A k \in 1..Len(output.kernels) :
    /\ custom_ops_[k].ep = NullProvider =>
         output.kernels[k].provider = kCpuExecutionProvider
    /\ custom_ops_[k].ep # NullProvider =>
         output.kernels[k].provider = custom_ops_[k].ep

\* C22 witness: the registry holds the kernel of a descriptor that declares
\* no provider and the kernel of one that declares the CUDA provider.
C22_Witness ==
  /\ status = "OK"
  /\ Len(output.kernels) = 2
  /\ custom_ops_[1].ep = NullProvider
  /\ custom_ops_[2].ep = kCudaExecutionProvider
  /\ output.kernels[1].provider = kCpuExecutionProvider
  /\ output.kernels[2].provider = kCudaExecutionProvider

(***************************************************************************)
(* Claims on type inference (specification SpecInfer).                     *)
(***************************************************************************)
InferCalled == infer # NoCall

\* the type bindings of the schema the inference function was called for
CalledTypeVecs == output.schemas[infer.name].type_vecs

\* A binding matches the node position by position: each input without a
\* type, each undefined entry, and each entry equal to the input type.
Matches(type_vec, inputs, num_outputs) ==
  /\ Len(type_vec) = Len(inputs) + num_outputs
  /\ \A i \in 1..Len(inputs) :
       \/ inputs[i] = NoType
       \/ type_vec[i] = UNDEFINED
       \/ type_vec[i] = inputs[i]

FooExample == <<<<FLOAT, FLOAT, FLOAT>>, <<INT64, INT64, INT64>>>>

WildcardInputs(type_vec, inputs) ==
  {i \in 1..Len(inputs) : type_vec[i] = UNDEFINED /\ inputs[i] # NoType}

\* C10: a binding that was matched received one and the same type at all
\* its undefined input positions, and each undefined output entry was
\* written as that type.
C10_WildcardsAgree ==
  (InferCalled /\ infer.matched # 0) =>
    LET type_vec == CalledTypeVecs[infer.matched]
        nin == Len(infer.inputs)
        wild == WildcardInputs(type_vec, infer.inputs)
    IN /\ \A i, j \in wild : infer.inputs[i] = infer.inputs[j]
       /\ \A o \in 1..Len(infer.after) :
            (type_vec[nin + o] = UNDEFINED /\ wild # {})
              => \A i \in wild : infer.after[o] = infer.inputs[i]

\* no binding of the called schema matches the node
NoBindingMatches ==
  \A j \in 1..Len(CalledTypeVecs) :
    ~Matches(CalledTypeVecs[j], infer.inputs, Len(infer.before))

KnownInputs == {i \in 1..Len(infer.inputs) : infer.inputs[i] # NoType}

\* a binding agrees with the node on the inputs that have a type
AgreesOnKnown(type_vec) ==
  /\ Len(type_vec) = Len(infer.inputs) + Len(infer.before)
  /\ \A i \in KnownInputs : type_vec[i] \in {UNDEFINED, infer.inputs[i]}

\* C24: an input without a type is skipped: the binding taken is the first
\* that agrees with the node on the inputs that have a type, so the first
\* binding of the right length when no input has one; an undefined output
\* entry of the binding taken is written as the type of an input that has
\* a type and meets an undefined entry, and as UNDEFINED when there is no
\* such input, whatever the output held before.
C24_UnknownInputsSkipped ==
  InferCalled =>
    LET tvs == CalledTypeVecs
        nin == Len(infer.inputs)
        agreeing == {j \in 1..Len(tvs) : AgreesOnKnown(tvs[j])}
    IN /\ agreeing = {} => infer.matched = 0
       /\ agreeing # {} =>
            /\ infer.matched \in agreeing
            /\ \A j \in agreeing : infer.matched <= j
       /\ infer.matched # 0 =>
            \A o \in 1..Len(infer.after) :
              tvs[infer.matched][nin + o] = UNDEFINED =>
                LET wild == WildcardInputs(tvs[infer.matched], infer.inputs)
                IN IF wild = {} THEN infer.after[o] = UNDEFINED
                   ELSE \E i \in wild : infer.after[o] = infer.inputs[i]

\* C24 witness: no input of the node has a type, the binding taken has a
\* concrete entry for an input and an undefined output entry, and the
\* output, typed before the call, holds UNDEFINED after it.
C24_Witness ==
  /\ InferCalled
  /\ infer.inputs = <<NoType, NoType>>
  /\ infer.matched # 0
  /\ \E i \in 1..2 : CalledTypeVecs[infer.matched][i] # UNDEFINED
  /\ CalledTypeVecs[infer.matched][3] = UNDEFINED
  /\ infer.before = <<DOUBLE>>
  /\ infer.after = <<UNDEFINED>>

(***************************************************************************)
(* Claims on the stream handles (specification SpecStream).                *)
(***************************************************************************)
\* C18: once RegisterCudaStreamHandles has run, the registry gives the
\* device wait for (CUDA, CUDA), the host wait for (CUDA, CPU) and
\* CreateCudaStream for CUDA, each registered once; every other pair and
\* provider is unregistered; and no later step changes the registry.
C18_HandlesRegisteredOnce ==
  /\ [](stream_handle_registry # EmptyHandleRegistry =>
          /\ GetWaitHandle(stream_handle_registry, kCudaExecutionProvider,
                           kCudaExecutionProvider) = WaitCudaNotificationOnDevice
          /\ GetWaitHandle(stream_handle_registry, kCudaExecutionProvider,
                           kCpuExecutionProvider) = WaitCudaNotificationOnHost
          /\ GetCreateStreamFn(stream_handle_registry, kCudaExecutionProvider)
               = CreateCudaStreamFn
          /\ \A c \in {kCudaExecutionProvider, kCpuExecutionProvider} :
               GetWaitHandle(stream_handle_registry, kCpuExecutionProvider, c)
                 = Unregistered
          /\ GetCreateStreamFn(stream_handle_registry, kCpuExecutionProvider)
               = Unregistered
          /\ Len(stream_handle_registry.wait_fns) = 2
          /\ Len(stream_handle_registry.create_fns) = 1)
  /\ [][stream_handle_registry # EmptyHandleRegistry =>
          stream_handle_registry' = stream_handle_registry]_vars

\* C18 witness: after the registration a stream was created and both waits
\* have returned.
C18_Witness ==
  /\ stream_handle_registry # EmptyHandleRegistry
  /\ created["cons"] = "stream"
  /\ pc["consumer"] = "returned"
  /\ pc["host"] = "returned"

\* C19: CreateCudaStream gives a stream (and its native queue) only for the
\* CUDA provider and for another provider throws before it creates one;
\* wait_on_device on a consumer stream of another provider fails, the
\* consumer never having spun on ready_ and no wait being enqueued.
C19_ProviderCheckedFirst ==
  /\ \A s \in Streams :
       /\ created[s] = "stream" => provider[s] = kCudaExecutionProvider
       /\ (created[s] # "none" /\ provider[s] # kCudaExecutionProvider) =>
            created[s] = "thrown"
  /\ provider["cons"] # kCudaExecutionProvider =>
       /\ pc["consumer"] \in {"run", "failed"}
       /\ "consumer" \notin paused
       /\ WaitsOn("cons") = {}
  /\ pc["consumer"] = "failed" => provider["cons"] # kCudaExecutionProvider

\* C19 witness: both calls failed for a consumer of the CPU provider while
\* the notification was already activated.
C19_Witness ==
  /\ created["cons"] = "thrown"
  /\ pc["consumer"] = "failed"
  /\ ready_

\* C20: Flush() has returned only if every operation its stream held at the
\* call has completed; it can return as soon as they have, whatever the
\* other stream has completed; and the operations of a stream complete one
\* at a time in enqueue order, what is enqueued staying in place.
C20_FlushWaitsForEnqueued ==
  /\ [](flush.pc = "returned" => done[flush.stream] >= flush.cap)
  /\ []((flush.pc = "blocked" /\ done[flush.stream] >= flush.cap)
          => ENABLED Flush_return)
  /\ [][\A s \in Streams :
          /\ done'[s] \in {done[s], done[s] + 1}
          /\ Len(queue'[s]) >= Len(queue[s])
          /\ SubSeq(queue'[s], 1, Len(queue[s])) = queue[s]]_vars

\* C20 witness: a Flush() of the consumer stream returned after a kernel
\* and a cross-queue wait enqueued before it completed, while an operation
\* of the producer stream has not completed.
C20_Witness ==
  /\ flush.pc = "returned"
  /\ flush.stream = "cons"
  /\ flush.cap >= 2
  /\ \E w \in WaitsOn("cons") : w <= flush.cap
  /\ \E i \in 1..flush.cap : queue["cons"][i].kind = "kernel"
  /\ done["prod"] < Len(queue["prod"])

(***************************************************************************)
(* Claims on termination of the waits (specification SpecLive).            *)
(***************************************************************************)
\* C21: the waits have no timeout and no cancellation. With fair threads
\* and fair queues, once Activate() has been called a wait_on_device that
\* is in its spin loop returns and wait_on_host returns; while Activate()
\* has not been called no wait is past its spin loop, and a wait_on_device
\* in its spin loop leaves it only to enqueue its wait, never failing.
C21_WaitsReturnOnlyAfterActivate ==
  /\ (pc["consumer"] = "wod_spin" /\ nAct >= 1) ~> (pc["consumer"] = "returned")
  /\ (nAct >= 1) ~> (pc["host"] = "returned")
  /\ [](nAct = 0 =>
          /\ pc["host"] = "run"
          /\ pc["consumer"] \in {"run", "wod_spin", "failed"})
  /\ [][/\ pc["consumer"] = "wod_spin" => pc'["consumer"] \in {"wod_spin", "wod_wait"}
        /\ pc["host"] = "run" => pc'["host"] \in {"run", "woh_sync"}
        /\ (~ready_ /\ ~ready_') =>
              /\ pc["consumer"] = "wod_spin" => pc'["consumer"] = "wod_spin"
              /\ pc["host"] = "run" => pc'["host"] = "run"]_vars

\* C21 witness: both waits spun while the flag was false and have returned
\* after the one Activate(), the producer stream holding a kernel before
\* the marker.
C21_Witness ==
  /\ paused = {"consumer", "host"}
  /\ nAct = 1
  /\ pc["consumer"] = "returned"
  /\ pc["host"] = "returned"
  /\ hostCap >= 2

(***************************************************************************)
(* Claims on the kernel instance (specification SpecKernel).               *)
(***************************************************************************)
\* C13: a kernel instance of a descriptor whose version is above
\* ORT_API_VERSION is not constructed and no CreateKernel, KernelCompute or
\* KernelDestroy of the plugin is called for it; one of a version up to
\* ORT_API_VERSION is constructed, CreateKernel being its first call.
C13_VersionCheckedBeforeCreate ==
  kernel.state # "none" =>
    IF kernel.version > ORT_API_VERSION
      THEN kernel.state = "thrown" /\ kernel.log = <<>>
      ELSE /\ kernel.state \in {"alive", "destroyed"}
           /\ kernel.log # <<>>
           /\ kernel.log[1] = <<"CreateKernel", kernel.op_kernel_>>

\* C13 witness: the construction failed for the first version above the
\* host's.
C13_Witness ==
  /\ kernel.state = "thrown"
  /\ kernel.version = ORT_API_VERSION + 1

\* the positions of the log that hold a call of fn
CallsOf(fn) == {k \in 1..Len(kernel.log) : kernel.log[k][1] = fn}

\* C23: for a constructed instance, CreateKernel is the first call into
\* the plugin and the only one of its kind; every KernelCompute and the
\* KernelDestroy are passed the handle it returned; Compute returned OK
\* once per KernelCompute; KernelDestroy is called when the instance is
\* destroyed, once, and is the last call.
C23_KernelLifecycle ==
  kernel.state \in {"alive", "destroyed"} =>
    /\ CallsOf("CreateKernel") = {1}
    /\ \A k \in 1..Len(kernel.log) : kernel.log[k][2] = kernel.log[1][2]
    /\ kernel.op_kernel_ = kernel.log[1][2]
    /\ Cardinality(CallsOf("KernelCompute")) = kernel.computed
    /\ kernel.state = "alive" => CallsOf("KernelDestroy") = {}
    /\ kernel.state = "destroyed" => CallsOf("KernelDestroy") = {Len(kernel.log)}

\* C23 witness: an instance computed twice and was destroyed.
C23_Witness ==
  /\ kernel.state = "destroyed"
  /\ kernel.computed = 2
  /\ Len(kernel.log) = 4

(***************************************************************************)
(* Claims on the attribute queries (specification SpecAttr).               *)
(***************************************************************************)
Queries == {attr.queries[k] : k \in 1..Len(attr.queries)}

BufferTooSmall == "Result buffer is not large enough"

\* C15: a query of a float or int64 array attribute with a null buffer
\* succeeds and sets size to the number of elements; with a buffer smaller
\* than that number (one less included) it returns the buffer-too-small
\* error, sets size to the number and leaves the buffer as it was; with a
\* buffer of that number of cells it succeeds, the buffer holds the
\* elements and size is the number.
C15_ArrayQuery ==
  (attr.kind \in {"float", "int64"} /\ attr.found) =>
    \A q \in Queries :
      /\ q.size_after = Len(attr.value)
      /\ q.out.null => q.status = "OK" /\ q.out_after = q.out
      /\ (~q.out.null /\ q.size < Len(attr.value)) =>
           q.status = BufferTooSmall /\ q.out_after = q.out
      /\ (~q.out.null /\ q.size = Len(attr.value)) =>
           q.status = "OK" /\ q.out_after.cells = attr.value

\* C15 witness: an attribute of two floats was queried with a buffer of one
\* cell, then with a buffer of two.
C15_Witness ==
  /\ attr.kind = "float"
  /\ Len(attr.value) = 2
  /\ Len(attr.queries) = 2
  /\ ~attr.queries[1].out.null /\ attr.queries[1].size = 1
  /\ attr.queries[1].status = BufferTooSmall
  /\ ~attr.queries[2].out.null /\ attr.queries[2].size = 2
  /\ attr.queries[2].status = "OK"

\* C16: a query of a string attribute with a null buffer succeeds with
\* size = length + 1; with a buffer of fewer than length + 1 cells it
\* returns the buffer-not-large-enough error, sets size to length + 1 and
\* writes nothing; and a query with a buffer of the size a null-buffer
\* query reported just before succeeds, the buffer holding the string and
\* then the terminator, and reports that size.
C16_StringQueryThenFill ==
  (attr.kind = "string" /\ attr.found) =>
    /\ \A q \in Queries :
         /\ q.size_after = Len(attr.value) + 1
         /\ q.out.null => q.status = "OK" /\ q.out_after = q.out
         /\ (~q.out.null /\ q.size < Len(attr.value) + 1) =>
              q.status = BufferTooSmall /\ q.out_after = q.out
    /\ \A k \in 1..(Len(attr.queries) - 1) :
         LET first == attr.queries[k]
             second == attr.queries[k + 1]
         IN (first.out.null /\ ~second.out.null /\ second.size = first.size_after) =>
              /\ second.status = "OK"
              /\ second.out_after.cells = Append(attr.value, NUL)
              /\ second.size_after = first.size_after

\* C16 witness: a string of two characters was queried with a null buffer
\* and then with a buffer of the reported size.
C16_Witness ==
  /\ attr.kind = "string"
  /\ Len(attr.value) = 2
  /\ Len(attr.queries) = 2
  /\ attr.queries[1].out.null
  /\ ~attr.queries[2].out.null
  /\ attr.queries[2].size = 3
  /\ attr.queries[2].status = "OK"

(***************************************************************************)
(* Specifications.                                                         *)
(***************************************************************************)
\* no custom op domain is being registered
RegistryIdle ==
  /\ custom_ops_ = <<>>
  /\ RegistryInit

\* the provider is up: its handles are registered, the streams of the
\* CUDA provider exist and no thread is in Flush()
StreamsUp ==
  /\ stream_handle_registry = RegisteredHandles
  /\ created = [s \in Streams |->
                  IF provider[s] = kCudaExecutionProvider THEN "stream" ELSE "none"]
  /\ flush = NoFlush

\* no kernel instance and no attribute query
ApiIdle ==
  /\ kernel = NoKernel
  /\ attr = NoQuery

\* no notification is in use
NotificationIdle ==
  /\ ready_ = FALSE
  /\ event_ = 0
  /\ queue = [s \in Streams |-> <<>>]
  /\ done = [s \in Streams |-> 0]
  /\ provider = [s \in Streams |-> kCudaExecutionProvider]
  /\ pc = [t \in Threads |-> "run"]
  /\ hostCap = 0
  /\ nAct = 0
  /\ paused = {}
  /\ StreamsUp

InitSync == NotificationInit /\ StreamsUp /\ RegistryIdle /\ ApiIdle

NextSync ==
  \/ \E t \in {"producer", "consumer"} : LaunchKernel(t)
  \/ Activate_record
  \/ Activate_store
  \/ wait_on_device_enforce
  \/ wait_on_device_spin
  \/ wait_on_device_enqueue
  \/ wait_on_host_spin
  \/ wait_on_host_sync
  \/ wait_on_host_return
  \/ \E s \in Streams : Execute(s)

SpecSync == InitSync /\ [][NextSync]_vars

SeqsUpTo(S, n) == UNION {[1..k -> S] : k \in 0..n}

InitReg ==
  /\ custom_ops_ \in SeqsUpTo(ShapeOps, MaxOps)
  /\ RegistryInit
  /\ NotificationIdle
  /\ ApiIdle

NextReg ==
  \/ ProcessCustomOp
  \/ RegisterOpSet

SpecReg == InitReg /\ [][NextReg]_vars

InitInfer ==
  /\ custom_ops_ \in SeqsUpTo(TypeOps, MaxOps)
  /\ RegistryInit
  /\ NotificationIdle
  /\ ApiIdle

NextInfer ==
  \/ ProcessCustomOp
  \/ RegisterOpSet
  \/ \E name \in {"Foo"}, inputs \in NodeInputs, outputs \in NodeOutputs :
       Infer(name, inputs, outputs)

SpecInfer == InitInfer /\ [][NextInfer]_vars

\* the provider is brought up, streams are created and used
InitStream ==
  /\ NotificationInit
  /\ stream_handle_registry = EmptyHandleRegistry
  /\ created = [s \in Streams |-> "none"]
  /\ flush = NoFlush
  /\ RegistryIdle
  /\ ApiIdle

\* the streams of the CUDA provider exist (a stream of another provider is
\* made by that provider)
StreamsCreated ==
  /\ stream_handle_registry # EmptyHandleRegistry
  /\ \A s \in Streams : provider[s] = kCudaExecutionProvider => created[s] = "stream"

NextStream ==
  \/ RegisterCudaStreamHandles
  \/ \E s \in Streams :
       /\ GetCreateStreamFn(stream_handle_registry, kCudaExecutionProvider)
            = CreateCudaStreamFn
       /\ CreateCudaStream(s)
  \/ /\ StreamsCreated
     /\ \/ \E t \in {"producer", "consumer"} : LaunchKernel(t)
        \/ nAct = 0 /\ Activate_record
        \/ Activate_store
        \/ wait_on_device_enforce
        \/ wait_on_device_spin
        \/ wait_on_device_enqueue
        \/ wait_on_host_spin
        \/ wait_on_host_sync
        \/ wait_on_host_return
        \/ \E s \in Streams : Execute(s)
        \/ \E s \in Streams : Flush_call(s)
        \/ Flush_return

SpecStream == InitStream /\ [][NextStream]_vars

InitKernel ==
  /\ kernel = NoKernel
  /\ attr = NoQuery
  /\ NotificationIdle
  /\ RegistryIdle

NextKernel ==
  \/ \E version \in PluginVersions, handle \in KernelHandles :
       CustomOpKernel(version, handle)
  \/ Compute
  \/ DestroyKernel

SpecKernel == InitKernel /\ [][NextKernel]_vars

InitAttr ==
  /\ kernel = NoKernel
  /\ \E kind \in {"string", "float", "int64"} :
       attr \in {[kind |-> kind, found |-> TRUE, value |-> v, queries |-> <<>>] :
                   v \in AttributeValues(kind)}
                \cup {[kind |-> kind, found |-> FALSE, value |-> <<>>, queries |-> <<>>]}
  /\ NotificationIdle
  /\ RegistryIdle

NextAttr ==
  \E out \in CallerBuffers(attr.kind), size \in 0..(MaxAttrLen + 1) :
    /\ ~out.null => size = Len(out.cells)
    /\ QueryAttribute(out, size)

SpecAttr == InitAttr /\ [][NextAttr]_vars

\* One notification activated at most once, the producer launching kernels
\* before or after it. The threads run (a thread inside Activate or inside
\* a wait takes its next step) and the device keeps completing what its
\* queues hold; whether and when Activate() and wait_on_device are called
\* is left open.
InitLive == NotificationInit /\ StreamsUp /\ RegistryIdle /\ ApiIdle

NextLive ==
  \/ LaunchKernel("producer")
  \/ nAct = 0 /\ Activate_record
  \/ Activate_store
  \/ wait_on_device_enforce
  \/ wait_on_device_spin
  \/ wait_on_device_enqueue
  \/ wait_on_host_spin
  \/ wait_on_host_sync
  \/ wait_on_host_return
  \/ \E s \in Streams : Execute(s)

SpecLive ==
  /\ InitLive
  /\ [][NextLive]_vars
  /\ WF_vars(Activate_store)
  /\ WF_vars(wait_on_device_spin)
  /\ WF_vars(wait_on_device_enqueue)
  /\ WF_vars(wait_on_host_spin)
  /\ WF_vars(wait_on_host_sync)
  /\ WF_vars(wait_on_host_return)
  /\ \A s \in Streams : WF_vars(Execute(s))

====
